---------------------------- MODULE Spec2Model ----------------------------
(***************************************************************************)
(* A model of pecos/io.py: the Campbell Scientific CSV reader, the e-mail  *)
(* notifier, the metrics and test-results writers and the monitoring       *)
(* report writer.  Each function of the module is one state machine over   *)
(* its own variables; the functions share no state, so each has its own    *)
(* specification (SpecRead, SpecEmail, SpecMetrics, SpecResults,           *)
(* SpecReport) in which the variables of the other functions stay idle.    *)
(***************************************************************************)
EXTENDS Integers, Sequences, FiniteSets, TLC

VARIABLES
    \* read_campbell_scientific
    file,          \* the input file: its state on disk and its content
    rpc,           \* position in read_campbell_scientific
    df,            \* the local variable df
    index,         \* the local variable index (line 53)
    ret,           \* the value returned to the caller
    \* send_email
    body,          \* the body argument, a sequence of characters
    attachment,    \* "none", "readable" or "unreadable"
    credentials,   \* TRUE when username and password are given
    epc,           \* position in send_email
    content,       \* MIME subtype chosen for the body
    parts,         \* the parts attached to msg, in order
    connected,     \* smtplib.SMTP(host) returned a session
    handshake,     \* outcome of the try block, lines 124-129
    sendmailCalls, \* number of calls of s.sendmail
    raisedAt,      \* the statement whose exception reached the caller
    delivery,      \* outcome of s.sendmail
    \* write_metrics
    metricsFile,   \* the metrics file on disk
    mpc,           \* position in write_metrics
    metrics,       \* the local variable metrics
    passed,        \* history: the table the caller passed
    previous_metrics, \* the local variable previous_metrics
    allRows,       \* history: row labels of all tables written so far
    allCols,       \* history: columns of all tables written so far
    latest,        \* history: last non-missing value given for each cell
    \* write_test_results
    test_results,  \* the test_results argument (sorted in place)
    tpc,           \* position in write_test_results
    resultsFile,   \* the test-results file on disk
    given,         \* history: the table as the caller passed it
    \* write_monitoring_report
    encode,        \* the encode argument
    interpreter,   \* "py2" or "py3"
    readable,      \* which image files can be opened
    custom_graphics,
    test_results_graphics,
    dfEmpty,       \* pm.df.empty
    pm_test_results, \* pm.test_results
    wpc,           \* position in write_monitoring_report
    img_dic,       \* the images encoded so far
    todo,          \* the images the current loop still has to encode
    times,         \* <<start_time, end_time>>
    reportFile,    \* the report file on disk
    reportBefore   \* history: the report file when the call started

readVars    == <<file, rpc, df, index, ret>>
emailVars   == <<body, attachment, credentials, epc, content, parts, connected,
                 handshake, sendmailCalls, raisedAt, delivery>>
metricsVars == <<metricsFile, mpc, metrics, passed, previous_metrics, allRows, allCols,
                 latest>>
resultsVars == <<test_results, tpc, resultsFile, given>>
reportVars  == <<encode, interpreter, readable, custom_graphics,
                 test_results_graphics, dfEmpty, pm_test_results, wpc, img_dic,
                 todo, times, reportFile, reportBefore>>
vars == <<readVars, emailVars, metricsVars, resultsVars, reportVars>>
notRead    == <<emailVars, metricsVars, resultsVars, reportVars>>
notEmail   == <<readVars, metricsVars, resultsVars, reportVars>>
notMetrics == <<readVars, emailVars, resultsVars, reportVars>>
notResults == <<readVars, emailVars, metricsVars, reportVars>>
notReport  == <<readVars, emailVars, metricsVars, resultsVars>>

(***************************************************************************)
(* Bounds of the model.                                                    *)
(***************************************************************************)
MaxRows == 3        \* data rows of an input file
MaxTs == 2          \* distinct timestamps
MaxResults == 3     \* rows of a test-results table
NumSystems == 2     \* distinct system names
NumVariables == 2   \* distinct variable names
NumValues == 2      \* distinct metric values
MaxGraphics == 2    \* length of each graphics list
MaxPad == 1         \* characters around the tag in an e-mail body

SeqsUpTo(S, n) == UNION {[1..k -> S] : k \in 0..n}


(***************************************************************************)
(* read_campbell_scientific                                                *)
(*                                                                         *)
(* A file is on disk in one of four states; when it can be read its second *)
(* line names the columns and the lines after it are the rows read_csv     *)
(* returns (skiprows=1 drops the first line).  A Campbell Scientific file  *)
(* has a units row and a processing-type row before its data rows.  Every  *)
(* cell is read as text (dtype='unicode'): a number, a blank or some other *)
(* text.                                                                   *)
(***************************************************************************)
Time(t)  == [k |-> "time", t |-> t]
BlankIx  == [k |-> "blank", t |-> 0]
TextIx   == [k |-> "text", t |-> 0]
IndexEntries == {Time(t) : t \in 1..MaxTs} \cup {BlankIx, TextIx}

NumCell  == [k |-> "num"]
BlankCell == [k |-> "blank"]
TextCell == [k |-> "text"]
Cells == {NumCell, BlankCell, TextCell}

\* what pd.to_datetime makes of one index entry
Timestamp(t) == [k |-> "Timestamp", t |-> t]
NaT == [k |-> "NaT", t |-> 0]
\* what the float64 conversion makes of one cell
Float == [k |-> "float"]
NaN == [k |-> "nan"]

UnitsRow == [ts |-> TextIx, val |-> TextCell]
ProcRow  == [ts |-> BlankIx, val |-> TextCell]
DataRows == [ts : IndexEntries, val : Cells]

\* a Campbell Scientific file with the data rows d
CampbellFile(r, d) ==
    [status |-> "ok", hasIndex |-> TRUE, ragged |-> r,
     body |-> <<UnitsRow, ProcRow>> \o d]
\* files that cannot be read: no TIMESTAMP column, no file, undecodable, broken
BadFiles ==
    {[status |-> "ok", hasIndex |-> FALSE, ragged |-> FALSE,
      body |-> <<UnitsRow, ProcRow, [ts |-> Time(1), val |-> NumCell]>>]}
    \cup {[status |-> s, hasIndex |-> TRUE, ragged |-> FALSE, body |-> <<>>] :
            s \in {"missing", "badenc", "corrupt"}}

\* the data rows of a file: the rows after the units and processing-type rows
Data(f) == SubSeq(f.body, 3, Len(f.body))

EmptyDataFrame == [index |-> <<>>, columns |-> <<>>, rows |-> <<>>,
                   dtype |-> "object"]
NoValue == [kind |-> "pending", df |-> EmptyDataFrame]
None == [kind |-> "None", df |-> EmptyDataFrame]
DataFrame(d) == [kind |-> "DataFrame", df |-> d]

\* pd.read_csv(file_name, skiprows=1, index_col=index_col, dtype='unicode'):
\* one row per line after the column names, one cell per remaining column;
\* a ragged file has a trailing column that pandas names "Unnamed: 2"
read_csv(f) ==
    [index |-> [i \in 1..Len(f.body) |-> f.body[i].ts],
     columns |-> IF f.ragged THEN <<"Ch1", "Unnamed: 2">> ELSE <<"Ch1">>,
     rows |-> [i \in 1..Len(f.body) |->
                 IF f.ragged THEN <<f.body[i].val, TextCell>>
                 ELSE <<f.body[i].val>>],
     dtype |-> "object"]

\* read_csv raises: no file, undecodable bytes, broken structure, no index column
read_csv_raises(f) == f.status # "ok" \/ ~f.hasIndex

SkipUnitRows_From3(d) ==
    [d EXCEPT !.index = SubSeq(@, 4, Len(@)), !.rows = SubSeq(@, 4, Len(@))]

\* df[2:]
SkipUnitRows(d) ==
    [d EXCEPT !.index = SubSeq(@, 3, Len(@)), !.rows = SubSeq(@, 3, Len(@))]

\* pd.to_datetime of one entry (errors='raise': other text is an exception)
to_datetime(e) == IF e.k = "time" THEN Timestamp(e.t) ELSE NaT
to_datetime_raises(ix) == \E i \in 1..Len(ix) : ix[i].k = "text"

\* df.filter(regex='Unnamed').columns
IsUnnamed(c) == c = "Unnamed: 2"
Kept(d) == {j \in 1..Len(d.columns) : ~IsUnnamed(d.columns[j])}
Pick(s, J) == \* the entries of s at the positions J, in order
    LET F[i \in 0..Len(s)] ==
            IF i = 0 THEN <<>>
            ELSE IF i \in J THEN Append(F[i-1], s[i]) ELSE F[i-1]
    IN F[Len(s)]

\* df.drop(Unnamed.columns, 1)
DropUnnamed(d) ==
    [d EXCEPT !.columns = Pick(@, Kept(d)),
              !.rows = [i \in 1..Len(@) |-> Pick(@[i], Kept(d))]]

\* pd.DataFrame(data=df.values, index=index, columns=df.columns, dtype='float64')
to_float(c) == IF c.k = "num" THEN Float ELSE NaN
to_float_raises(d) ==
    \E i \in 1..Len(d.rows) : \E j \in 1..Len(d.rows[i]) : d.rows[i][j].k = "text"
AsFloat64(d, ix) ==
    [index |-> ix, columns |-> d.columns,
     rows |-> [i \in 1..Len(d.rows) |->
                 [j \in 1..Len(d.rows[i]) |-> to_float(d.rows[i][j])]],
     dtype |-> "float64"]

DropLabel_KeepAll(d) == d

\* df.drop(pd.NaT, inplace=True); a KeyError (no NaT in the index) is swallowed
DropLabel(d) ==
    LET keep == {i \in 1..Len(d.index) : d.index[i] # NaT}
    IN [d EXCEPT !.index = Pick(@, keep), !.rows = Pick(@, keep)]

ReadIdle ==
    /\ file = [status |-> "missing", hasIndex |-> TRUE, ragged |-> FALSE,
               body |-> <<>>]
    /\ rpc = "idle" /\ df = EmptyDataFrame /\ index = <<>> /\ ret = NoValue

ReadInit ==
    /\ \/ file \in BadFiles
       \/ \E n \in 0..MaxRows : \E r \in BOOLEAN, d \in [1..n -> DataRows] :
            file = CampbellFile(r, d)
    /\ rpc = "read_csv" /\ df = EmptyDataFrame /\ index = <<>> /\ ret = NoValue

\* line 51
ReadCsv ==
    /\ rpc = "read_csv"
    /\ IF read_csv_raises(file)
       THEN rpc' = "except" /\ UNCHANGED df
       ELSE rpc' = "slice" /\ df' = read_csv(file)
    /\ UNCHANGED <<file, index, ret>>
    /\ UNCHANGED notRead

\* line 52
Slice ==
    /\ rpc = "slice"
    /\ df' = SkipUnitRows(df)
    /\ rpc' = "to_datetime"
    /\ UNCHANGED <<file, index, ret>>
    /\ UNCHANGED notRead

\* line 53
ToDatetime ==
    /\ rpc = "to_datetime"
    /\ IF to_datetime_raises(df.index)
       THEN rpc' = "except" /\ UNCHANGED index
       ELSE /\ rpc' = "drop_unnamed"
            /\ index' = [i \in 1..Len(df.index) |-> to_datetime(df.index[i])]
    /\ UNCHANGED <<file, df, ret>>
    /\ UNCHANGED notRead

\* lines 54-55
DropUnnamedColumns ==
    /\ rpc = "drop_unnamed"
    /\ df' = DropUnnamed(df)
    /\ rpc' = "to_float"
    /\ UNCHANGED <<file, index, ret>>
    /\ UNCHANGED notRead

\* line 56
ToFloat ==
    /\ rpc = "to_float"
    /\ IF to_float_raises(df)
       THEN rpc' = "except" /\ UNCHANGED df
       ELSE rpc' = "drop_nat" /\ df' = AsFloat64(df, index)
    /\ UNCHANGED <<file, index, ret>>
    /\ UNCHANGED notRead

\* lines 57-60: the handler builds an empty DataFrame and returns nothing
Except ==
    /\ rpc = "except"
    /\ df' = EmptyDataFrame
    /\ ret' = None
    /\ rpc' = "done"
    /\ UNCHANGED <<file, index>>
    /\ UNCHANGED notRead

\* lines 63-66
DropNaT ==
    /\ rpc = "drop_nat"
    /\ df' = DropLabel(df)
    /\ rpc' = "return"
    /\ UNCHANGED <<file, index, ret>>
    /\ UNCHANGED notRead

\* line 68
ReturnDf ==
    /\ rpc = "return"
    /\ ret' = DataFrame(df)
    /\ rpc' = "done"
    /\ UNCHANGED <<file, df, index>>
    /\ UNCHANGED notRead

ReadNext ==
    \/ ReadCsv
    \/ Slice
    \/ ToDatetime
    \/ DropUnnamedColumns
    \/ ToFloat
    \/ Except
    \/ DropNaT
    \/ ReturnDf


(***************************************************************************)
(* Properties of read_campbell_scientific                                  *)
(***************************************************************************)
Returned == rpc = "done"
IsTable(r) == r.kind = "DataFrame"
NumericCells(f) == \A i \in 1..Len(Data(f)) : Data(f)[i].val.k # "text"
Readable(f) == f.status = "ok" /\ f.hasIndex
\* the timestamps of the data rows whose index entry is a time, in file order
RECURSIVE TimesOf(_)
TimesOf(rows) ==
    IF rows = <<>> THEN <<>>
    ELSE (IF Head(rows).ts.k = "time" THEN <<Timestamp(Head(rows).ts.t)>> ELSE <<>>)
         \o TimesOf(Tail(rows))
\* the same for the rows whose index entry is not missing
RECURSIVE PresentOf(_)
PresentOf(rows) ==
    IF rows = <<>> THEN <<>>
    ELSE (IF Head(rows).ts.k # "blank" THEN <<to_datetime(Head(rows).ts)>> ELSE <<>>)
         \o PresentOf(Tail(rows))
RECURSIVE ValuesOf(_)
ValuesOf(rows) ==
    IF rows = <<>> THEN <<>>
    ELSE (IF Head(rows).ts.k = "time"
          THEN <<IF Head(rows).val.k = "num" THEN <<Float>> ELSE <<NaN>> >>
          ELSE <<>>)
         \o ValuesOf(Tail(rows))

\* C1: whenever reading or parsing fails (missing file, unsupported
\* encoding, corrupt structure, missing index column, non-numeric cell) the
\* call returns an empty table.
C1_EmptyTableOnFailure ==
    (Returned /\ (~Readable(file) \/ ~NumericCells(file)))
        => (IsTable(ret) /\ ret.df.rows = <<>>)

C3_OnlyBadRowsDropped ==
    (Returned /\ Readable(file) /\ NumericCells(file))
    => /\ IsTable(ret)
       /\ ret.df.index = TimesOf(Data(file))
       /\ ret.df.rows = ValuesOf(Data(file))

\* C9 as stated: the returned table's index is unique and ascending.
Ascending(ix) == \A i \in 1..(Len(ix) - 1) : ix[i].t < ix[i+1].t
C9_UniqueAscending == (Returned /\ IsTable(ret)) => Ascending(ret.df.index)

\* C9: the returned table's index holds the timestamps of the data rows
\* whose index entry is not missing, in file order, repetitions kept; no NaT
\* is left in it.
C9_IndexInFileOrder ==
    (Returned /\ IsTable(ret))
    => /\ ret.df.index = PresentOf(Data(file))
       /\ \A i \in 1..Len(ret.df.index) : ret.df.index[i] # NaT

C9_Witness ==
    /\ Returned /\ IsTable(ret)
    /\ \E i \in 1..Len(Data(file)) : Data(file)[i].ts.k = "blank"
    /\ \E i \in 1..(Len(ret.df.index) - 1) : ret.df.index[i].t > ret.df.index[i+1].t

C9_WitnessRepeated ==
    /\ Returned /\ IsTable(ret)
    /\ \E i \in 1..(Len(ret.df.index) - 1) : ret.df.index[i].t = ret.df.index[i+1].t

(***************************************************************************)
(* send_email                                                              *)
(*                                                                         *)
(* The body is a sequence of characters.  The bodies tried are the closing *)
(* tag in every letter case, the tag with one character replaced or left   *)
(* out, and no tag at all, each between up to MaxPad characters of other   *)
(* text on either side.                                                    *)
(***************************************************************************)
Tag == <<"<", "/", "h", "t", "m", "l", ">">>

\* str.lower() on one character
LowerChar(c) ==
    CASE c = "H" -> "h" [] c = "T" -> "t" [] c = "M" -> "m" [] c = "L" -> "l"
      [] c = "X" -> "x" [] OTHER -> c

lower_Identity(s) == s

\* line 109: body.lower()
lower(s) == [i \in 1..Len(s) |-> LowerChar(s[i])]

\* t in s, for two strings
Contains(s, t) ==
    \E i \in 0..(Len(s) - Len(t)) : SubSeq(s, i + 1, i + Len(t)) = t

UpperOf(c) ==
    CASE c = "h" -> "H" [] c = "t" -> "T" [] c = "m" -> "M" [] c = "l" -> "L"
      [] OTHER -> c
TagVariants ==
    {[k \in 1..Len(Tag) |-> IF k \in U THEN UpperOf(Tag[k]) ELSE Tag[k]] :
        U \in SUBSET (1..Len(Tag))}
Damaged ==
    {[Tag EXCEPT ![k] = "x"] : k \in 1..Len(Tag)}
    \cup {SubSeq(Tag, 1, k - 1) \o SubSeq(Tag, k + 1, Len(Tag)) : k \in 1..Len(Tag)}
Pads == SeqsUpTo({"x", "X", "<"}, MaxPad)
Bodies == {p \o c \o q : p \in Pads, q \in Pads, c \in TagVariants \cup Damaged \cup {<<>>}}

AfterHandshakeError_Propagate(step) == [pc |-> "raised", raised |-> step]

\* lines 128-129: except: pass
AfterHandshakeError(step) == [pc |-> "sendmail", raised |-> "none"]

EmailIdle ==
    /\ body = <<>> /\ attachment = "none" /\ credentials = FALSE
    /\ epc = "idle" /\ content = "none" /\ parts = <<>> /\ connected = FALSE
    /\ handshake = "pending" /\ sendmailCalls = 0 /\ raisedAt = "none"
    /\ delivery = "none"

EmailInit ==
    /\ body \in Bodies
    /\ attachment \in {"none", "readable", "unreadable"}
    /\ credentials \in BOOLEAN
    /\ epc = "build" /\ content = "none" /\ parts = <<>> /\ connected = FALSE
    /\ handshake = "pending" /\ sendmailCalls = 0 /\ raisedAt = "none"
    /\ delivery = "none"

\* lines 104-114
BuildMessage ==
    /\ epc = "build"
    /\ content' = IF Contains(lower(body), Tag) THEN "html" ELSE "plain"
    /\ parts' = <<content'>>
    /\ epc' = "attach"
    /\ UNCHANGED <<body, attachment, credentials, connected, handshake,
                   sendmailCalls, raisedAt, delivery>>
    /\ UNCHANGED notEmail

\* lines 116-121
Attach ==
    /\ epc = "attach"
    /\ CASE attachment = "none" ->
              epc' = "connect" /\ UNCHANGED <<parts, raisedAt>>
         [] attachment = "readable" ->
              epc' = "connect" /\ parts' = Append(parts, "attachment")
              /\ UNCHANGED raisedAt
         [] attachment = "unreadable" ->
              epc' = "raised" /\ raisedAt' = "open" /\ UNCHANGED parts
    /\ UNCHANGED <<body, attachment, credentials, content, connected, handshake,
                   sendmailCalls, delivery>>
    /\ UNCHANGED notEmail

\* line 123
Connect ==
    /\ epc = "connect"
    /\ \E ok \in BOOLEAN :
         IF ok THEN connected' = TRUE /\ epc' = "ehlo" /\ UNCHANGED raisedAt
         ELSE epc' = "raised" /\ raisedAt' = "SMTP" /\ UNCHANGED connected
    /\ UNCHANGED <<body, attachment, credentials, content, parts, handshake,
                   sendmailCalls, delivery>>
    /\ UNCHANGED notEmail

\* line 125; a failure goes to the handler
Ehlo ==
    /\ epc = "ehlo"
    /\ \E ok \in BOOLEAN :
         IF ok THEN epc' = "starttls" /\ UNCHANGED <<handshake, raisedAt>>
         ELSE /\ epc' = AfterHandshakeError("ehlo").pc
              /\ raisedAt' = AfterHandshakeError("ehlo").raised
              /\ handshake' = "ehlo"
    /\ UNCHANGED <<body, attachment, credentials, content, parts, connected,
                   sendmailCalls, delivery>>
    /\ UNCHANGED notEmail

\* line 126
StartTls ==
    /\ epc = "starttls"
    /\ \E ok \in BOOLEAN :
         IF ok THEN epc' = "login" /\ UNCHANGED <<handshake, raisedAt>>
         ELSE /\ epc' = AfterHandshakeError("starttls").pc
              /\ raisedAt' = AfterHandshakeError("starttls").raised
              /\ handshake' = "starttls"
    /\ UNCHANGED <<body, attachment, credentials, content, parts, connected,
                   sendmailCalls, delivery>>
    /\ UNCHANGED notEmail

\* line 127: without a username and password the login cannot succeed
Login ==
    /\ epc = "login"
    /\ \E ok \in BOOLEAN :
         IF ok /\ credentials
         THEN epc' = "sendmail" /\ handshake' = "authenticated"
              /\ UNCHANGED raisedAt
         ELSE /\ epc' = AfterHandshakeError("login").pc
              /\ raisedAt' = AfterHandshakeError("login").raised
              /\ handshake' = "login"
    /\ UNCHANGED <<body, attachment, credentials, content, parts, connected,
                   sendmailCalls, delivery>>
    /\ UNCHANGED notEmail

\* line 130
Sendmail ==
    /\ epc = "sendmail"
    /\ sendmailCalls' = sendmailCalls + 1
    /\ \E ok \in BOOLEAN :
         IF ok THEN delivery' = "sent" /\ epc' = "quit" /\ UNCHANGED raisedAt
         ELSE delivery' = "failed" /\ epc' = "raised" /\ raisedAt' = "sendmail"
    /\ UNCHANGED <<body, attachment, credentials, content, parts, connected,
                   handshake>>
    /\ UNCHANGED notEmail

\* line 131
Quit ==
    /\ epc = "quit"
    /\ epc' = "returned"
    /\ UNCHANGED <<body, attachment, credentials, content, parts, connected,
                   handshake, sendmailCalls, raisedAt, delivery>>
    /\ UNCHANGED notEmail

EmailNext ==
    \/ BuildMessage
    \/ Attach
    \/ Connect
    \/ Ehlo
    \/ StartTls
    \/ Login
    \/ Sendmail
    \/ Quit

(***************************************************************************)
(* Properties of send_email                                                *)
(***************************************************************************)
\* C7: once the SMTP session exists, sendmail is called exactly once
\* whatever the handshake did; a failure of ehlo, starttls or login (absent
\* credentials included) never reaches the caller and delivery goes on
\* unauthenticated; a failure of sendmail does reach the caller.
C7_DeliveryAttemptedOnce ==
    /\ sendmailCalls <= 1
    /\ (connected /\ epc \in {"quit", "returned", "raised"}) => sendmailCalls = 1
    /\ raisedAt \notin {"ehlo", "starttls", "login"}
    /\ handshake \in {"ehlo", "starttls", "login"}
         => epc \in {"sendmail", "quit", "returned", "raised"}
    /\ ~credentials => handshake # "authenticated"
    /\ delivery = "failed" <=> (epc = "raised" /\ raisedAt = "sendmail")

C7_Witness ==
    /\ epc = "returned" /\ ~credentials /\ handshake = "login"
    /\ sendmailCalls = 1 /\ delivery = "sent"

C7_WitnessDeliveryFails ==
    /\ epc = "raised" /\ raisedAt = "sendmail" /\ handshake = "starttls"

\* C10: the body is sent as HTML exactly when it contains the closing tag
\* in some letter case, and as plain text otherwise.
HasClosingTag(b) ==
    \E i \in 0..(Len(b) - Len(Tag)) :
        \A k \in 1..Len(Tag) : b[i + k] = Tag[k] \/ b[i + k] = UpperOf(Tag[k])
C10_HtmlIffClosingTag ==
    epc \notin {"idle", "build"}
        => /\ content = (IF HasClosingTag(body) THEN "html" ELSE "plain")
           /\ parts[1] = content

C10_Witness ==
    /\ epc = "returned" /\ content = "html"
    /\ \E i \in 1..Len(body) : body[i] = "H"
    /\ \E i \in 1..Len(body) : body[i] = "l"

C10_WitnessPlain ==
    /\ epc = "returned" /\ content = "plain"
    /\ Len(body) >= Len(Tag) /\ \E i \in 1..Len(body) : body[i] = "/"

(***************************************************************************)
(* write_metrics                                                           *)
(*                                                                         *)
(* A metrics table has one row per run date and one column per metric; a   *)
(* cell is a number or missing.  The caller's table is indexed by dates,   *)
(* the file holds text, and a table read back is indexed by strings.       *)
(***************************************************************************)
RunDates == {"2016-01-01", "2016-01-02"}
MetricNames == {"QCI", "RMSE"}
Missing == [null |-> TRUE, v |-> 0]
Value(n) == [null |-> FALSE, v |-> n]
MetricCells == {Missing} \cup {Value(n) : n \in 1..NumValues}

Date(d) == [type |-> "datetime", v |-> d]
Str(d) == [type |-> "str", v |-> d]

EmptyTable == [index |-> {}, columns |-> {}, cell |-> [p \in {} |-> Missing]]
\* the tables a caller may pass
Tables ==
    UNION {{[index |-> {Date(d) : d \in R}, columns |-> C, cell |-> f] :
              f \in [{Date(d) : d \in R} \X C -> MetricCells]} :
           R \in SUBSET RunDates, C \in SUBSET MetricNames}

NoFile == [exists |-> FALSE, index |-> {}, columns |-> {},
           cell |-> [p \in {} |-> "NaN"]]

\* the text to_csv writes for a cell (na_rep='NaN') and read_csv's reading of it
Numerals == <<"1.0", "2.0", "3.0", "4.0">>
CellText(c) == IF c.null THEN "NaN" ELSE Numerals[c.v]
ParseCell(t) ==
    IF t = "NaN" THEN Missing
    ELSE Value(CHOOSE n \in 1..Len(Numerals) : Numerals[n] = t)

\* metrics.to_csv(fout, index_label='TIMESTEP', na_rep='NaN')
to_csv(t) ==
    [exists |-> TRUE,
     index |-> {l.v : l \in t.index},
     columns |-> t.columns,
     cell |-> [p \in {l.v : l \in t.index} \X t.columns |->
                 CellText(t.cell[CHOOSE l \in t.index : l.v = p[1], p[2]])]]

ReadMetricsFile_NoPrior(f) == EmptyTable

\* lines 147-150: pd.read_csv(filename, index_col='TIMESTEP'), or an empty
\* DataFrame when that raises
ReadMetricsFile(f) ==
    IF ~f.exists THEN EmptyTable
    ELSE [index |-> {Str(d) : d \in f.index},
          columns |-> f.columns,
          cell |-> [p \in {Str(d) : d \in f.index} \X f.columns |->
                      ParseCell(f.cell[p[1].v, p[2]])]]

\* line 152: metrics.index.to_native_types()
to_native_types(t) ==
    [index |-> {Str(l.v) : l \in t.index},
     columns |-> t.columns,
     cell |-> [p \in {Str(l.v) : l \in t.index} \X t.columns |->
                 t.cell[CHOOSE l \in t.index : l.v = p[1].v, p[2]]]]

At(t, r, c) == IF r \in t.index /\ c \in t.columns THEN t.cell[r, c] ELSE Missing

combine_first_OtherWins(a, b) ==
    [index |-> a.index \cup b.index,
     columns |-> a.columns \cup b.columns,
     cell |-> [p \in (a.index \cup b.index) \X (a.columns \cup b.columns) |->
                 IF ~At(b, p[1], p[2]).null THEN At(b, p[1], p[2])
                 ELSE At(a, p[1], p[2])]]

\* line 153: a.combine_first(b): the union of the labels, a's value where a
\* has one that is not null, else b's
combine_first(a, b) ==
    [index |-> a.index \cup b.index,
     columns |-> a.columns \cup b.columns,
     cell |-> [p \in (a.index \cup b.index) \X (a.columns \cup b.columns) |->
                 IF ~At(a, p[1], p[2]).null THEN At(a, p[1], p[2])
                 ELSE At(b, p[1], p[2])]]

MetricsIdle ==
    /\ metricsFile = NoFile /\ mpc = "idle"
    /\ metrics = EmptyTable /\ passed = EmptyTable
    /\ previous_metrics = EmptyTable
    /\ allRows = {} /\ allCols = {}
    /\ latest = [p \in RunDates \X MetricNames |-> Missing]

MetricsInit == MetricsIdle

\* the caller calls write_metrics(filename, metrics)
CallWriteMetrics ==
    /\ mpc = "idle"
    /\ \E t \in Tables : metrics' = t /\ passed' = t
    /\ previous_metrics' = EmptyTable
    /\ mpc' = "read"
    /\ UNCHANGED <<metricsFile, allRows, allCols, latest>>
    /\ UNCHANGED notMetrics

\* lines 147-150
ReadPrevious ==
    /\ mpc = "read"
    /\ previous_metrics' = ReadMetricsFile(metricsFile)
    /\ mpc' = "merge"
    /\ UNCHANGED <<metricsFile, metrics, passed, allRows, allCols, latest>>
    /\ UNCHANGED notMetrics

\* lines 152-153
Merge ==
    /\ mpc = "merge"
    /\ metrics' = combine_first(to_native_types(metrics), previous_metrics)
    /\ mpc' = "write"
    /\ UNCHANGED <<metricsFile, passed, previous_metrics, allRows, allCols, latest>>
    /\ UNCHANGED notMetrics

\* lines 155-157; the history records the table the caller passed
WriteMetricsFile ==
    /\ mpc = "write"
    /\ metricsFile' = to_csv(metrics)
    /\ allRows' = allRows \cup {l.v : l \in passed.index}
    /\ allCols' = allCols \cup passed.columns
    /\ latest' = [p \in RunDates \X MetricNames |->
                    IF ~At(passed, Date(p[1]), p[2]).null
                    THEN At(passed, Date(p[1]), p[2]) ELSE latest[p]]
    /\ mpc' = "written"
    /\ UNCHANGED <<metrics, passed, previous_metrics>>
    /\ UNCHANGED notMetrics

\* the call returns; its locals are gone
ReturnMetrics ==
    /\ mpc = "written"
    /\ mpc' = "idle"
    /\ metrics' = EmptyTable /\ passed' = EmptyTable
    /\ previous_metrics' = EmptyTable
    /\ UNCHANGED <<metricsFile, allRows, allCols, latest>>
    /\ UNCHANGED notMetrics

MetricsNext ==
    \/ CallWriteMetrics
    \/ ReadPrevious
    \/ Merge
    \/ WriteMetricsFile
    \/ ReturnMetrics

(***************************************************************************)
(* Properties of write_metrics                                             *)
(***************************************************************************)
\* the (row, column) pairs present both in the prior file and in the new table
Overlap ==
    {p \in RunDates \X MetricNames :
        /\ Date(p[1]) \in passed.index /\ p[2] \in passed.columns
        /\ Str(p[1]) \in previous_metrics.index /\ p[2] \in previous_metrics.columns}

\* C5 as stated: on every overlapping pair the file holds the new table's
\* value, whatever that value is; the columns are the union.
C5_NewAlwaysWins ==
    mpc = "written"
    => /\ metricsFile.columns = previous_metrics.columns \cup passed.columns
       /\ \A p \in Overlap :
            metricsFile.cell[p] = CellText(passed.cell[Date(p[1]), p[2]])

\* C5: on every overlapping pair the file holds the new table's value when
\* that value is not missing, and the prior file's value when it is; the
\* written columns are the union of the prior and the new columns.
C5_NewWinsUnlessMissing ==
    mpc = "written"
    => /\ metricsFile.columns = previous_metrics.columns \cup passed.columns
       /\ \A p \in Overlap :
            metricsFile.cell[p] =
                IF passed.cell[Date(p[1]), p[2]].null
                THEN CellText(previous_metrics.cell[Str(p[1]), p[2]])
                ELSE CellText(passed.cell[Date(p[1]), p[2]])

C5_Witness ==
    /\ mpc = "written"
    /\ \E p \in Overlap :
         /\ ~passed.cell[Date(p[1]), p[2]].null
         /\ ~previous_metrics.cell[Str(p[1]), p[2]].null
         /\ passed.cell[Date(p[1]), p[2]] # previous_metrics.cell[Str(p[1]), p[2]]
    /\ \E p \in Overlap :
         /\ passed.cell[Date(p[1]), p[2]].null
         /\ ~previous_metrics.cell[Str(p[1]), p[2]].null
    /\ passed.columns # previous_metrics.columns

\* C6 as stated: after every call the file's rows and columns are the unions
\* of those written so far, and each cell of the table just written is in
\* the file as that call gave it.
C6_LatestCallWins ==
    mpc = "written"
    => /\ metricsFile.index = allRows /\ metricsFile.columns = allCols
       /\ \A l \in passed.index : \A c \in passed.columns :
            metricsFile.cell[l.v, c] = CellText(passed.cell[l, c])

\* C6: after any sequence of calls, starting with no file, the file's rows
\* are the union of the rows of all tables written so far, its columns the
\* union of their columns, and each cell holds the value of the most recent
\* call that gave a value that is not missing for it (NaN when none did).
C6_Accumulates ==
    IF metricsFile.exists
    THEN /\ metricsFile.index = allRows
         /\ metricsFile.columns = allCols
         /\ \A r \in allRows : \A c \in allCols :
              metricsFile.cell[r, c] = CellText(latest[r, c])
    ELSE allRows = {} /\ allCols = {}

C6_Witness ==
    /\ mpc = "written"
    /\ \E r \in metricsFile.index : Date(r) \notin passed.index
    /\ \E l \in passed.index : \E c \in passed.columns :
         passed.cell[l, c].null /\ metricsFile.cell[l.v, c] # "NaN"
    /\ \E l \in passed.index : \E c \in passed.columns :
         /\ ~passed.cell[l, c].null
         /\ ~At(previous_metrics, Str(l.v), c).null
         /\ passed.cell[l, c] # At(previous_metrics, Str(l.v), c)

(***************************************************************************)
(* write_test_results                                                      *)
(*                                                                         *)
(* A test-results table is a sequence of rows, each with its index label.  *)
(* System and variable names are numbered in their sorting order.          *)
(***************************************************************************)
TestTypes == {"Missing data", "Corrupt data"}
ResultRows == [sys : 1..NumSystems, var : 1..NumVariables, test : TestTypes]
\* a table of n rows as a caller may hold it: the default index 0..n-1, an
\* index left over from a concatenation (every label 0), or n..1
Indexes(n) == {[i \in 1..n |-> i - 1], [i \in 1..n |-> 0], [i \in 1..n |-> n + 1 - i]}
ResultTable(ix, rs) == [i \in 1..Len(rs) |-> [label |-> ix[i], row |-> rs[i]]]

Before_SystemOnly(a, b) == a.row.sys < b.row.sys

\* a sorts strictly before b by ['System Name', 'Variable Name']
Before(a, b) ==
    \/ a.row.sys < b.row.sys
    \/ a.row.sys = b.row.sys /\ a.row.var < b.row.var

\* the stable insertion of one line into a sorted table
RECURSIVE Insert(_, _)
Insert(x, t) ==
    IF t = <<>> THEN <<x>>
    ELSE IF Before(x, Head(t)) THEN <<x>> \o t
    ELSE <<Head(t)>> \o Insert(x, Tail(t))

\* line 173: test_results.sort_values(['System Name', 'Variable Name'])
RECURSIVE sort_values(_)
sort_values(t) ==
    IF t = <<>> THEN <<>>
    ELSE Insert(t[Len(t)], sort_values(SubSeq(t, 1, Len(t) - 1)))

\* line 174: test_results.index = np.arange(1, test_results.shape[0]+1)
arange(t) == [i \in 1..Len(t) |-> [t[i] EXCEPT !.label = i]]

NoResultsFile == [exists |-> FALSE, lines |-> <<>>]

ResultsIdle ==
    /\ test_results = <<>> /\ given = <<>> /\ tpc = "idle"
    /\ resultsFile = NoResultsFile

ResultsInit ==
    /\ \E n \in 0..MaxResults : \E ix \in Indexes(n), rs \in [1..n -> ResultRows] :
         test_results = ResultTable(ix, rs)
    /\ given = test_results
    /\ tpc = "sort" /\ resultsFile = NoResultsFile

\* line 173
SortResults ==
    /\ tpc = "sort"
    /\ test_results' = sort_values(test_results)
    /\ tpc' = "index"
    /\ UNCHANGED <<given, resultsFile>>
    /\ UNCHANGED notResults

\* line 174
Reindex ==
    /\ tpc = "index"
    /\ test_results' = arange(test_results)
    /\ tpc' = "write"
    /\ UNCHANGED <<given, resultsFile>>
    /\ UNCHANGED notResults

\* lines 178-180
WriteResults ==
    /\ tpc = "write"
    /\ resultsFile' = [exists |-> TRUE, lines |-> test_results]
    /\ tpc' = "done"
    /\ UNCHANGED <<test_results, given>>
    /\ UNCHANGED notResults

ResultsNext ==
    \/ SortResults
    \/ Reindex
    \/ WriteResults

(***************************************************************************)
(* Properties of write_test_results                                        *)
(***************************************************************************)
Count(t, r) == Cardinality({i \in 1..Len(t) : t[i].row = r})

\* C4: the file holds the rows of the table passed, ordered by (System Name,
\* Variable Name) ascending and labelled 1, 2, ..., N in that order; the
\* rows written are a permutation of the rows passed.
C4_SortedDenseIndex ==
    tpc = "done"
    => LET w == resultsFile.lines
       IN /\ resultsFile.exists
          /\ Len(w) = Len(given)
          /\ \A i \in 1..Len(w) : w[i].label = i
          /\ \A i \in 1..(Len(w) - 1) :
               \/ w[i].row.sys < w[i+1].row.sys
               \/ w[i].row.sys = w[i+1].row.sys /\ w[i].row.var <= w[i+1].row.var
          /\ \A r \in ResultRows : Count(w, r) = Count(given, r)

C4_Witness ==
    /\ tpc = "done" /\ Len(given) = MaxResults
    /\ given[1].row.sys > given[2].row.sys
    /\ given[2].row.sys = given[3].row.sys /\ given[2].row.var > given[3].row.var
    /\ given[1].label = 0 /\ given[2].label = 0
    /\ resultsFile.lines # given

(***************************************************************************)
(* write_monitoring_report                                                 *)
(***************************************************************************)
Images == {"a.png", "b.png"}
GraphicsLists == SeqsUpTo(Images, MaxGraphics)
OldReport == [exists |-> TRUE, start |-> "old", images |-> {}, inline |-> FALSE,
              results |-> <<>>]
NoReport == [exists |-> FALSE, start |-> "", images |-> {}, inline |-> FALSE,
             results |-> <<>>]
SomeResults ==
    {<<>>,
     <<[label |-> 0, row |-> [sys |-> 2, var |-> 1, test |-> "Missing data"]],
       [label |-> 1, row |-> [sys |-> 1, var |-> 1, test |-> "Corrupt data"]]>>}

CannotOpen_Never(im) == FALSE

\* lines 366 and 371: open(im, "rb") raises for a file that cannot be read
CannotOpen(im) == ~readable[im]

\* lines 368 and 373: data.encode("base64"); bytes have no encode in Python 3
CannotEncode(im) == interpreter = "py3"

ReportIdle ==
    /\ encode = FALSE /\ interpreter = "py2"
    /\ readable = [im \in Images |-> TRUE]
    /\ custom_graphics = <<>> /\ test_results_graphics = <<>>
    /\ dfEmpty = TRUE /\ pm_test_results = <<>>
    /\ wpc = "idle" /\ img_dic = {} /\ todo = <<>> /\ times = <<"", "">>
    /\ reportFile = NoReport /\ reportBefore = NoReport

ReportInit ==
    /\ encode \in BOOLEAN /\ interpreter \in {"py2", "py3"}
    /\ readable \in [Images -> BOOLEAN]
    /\ custom_graphics \in GraphicsLists
    /\ test_results_graphics \in GraphicsLists
    /\ dfEmpty \in BOOLEAN /\ pm_test_results \in SomeResults
    /\ wpc = "prepare" /\ img_dic = {} /\ todo = <<>> /\ times = <<"", "">>
    /\ reportFile \in {NoReport, OldReport} /\ reportBefore = reportFile

\* lines 227-274: the time span, the notes, the sorted test results
Prepare ==
    /\ wpc = "prepare"
    /\ times' = IF dfEmpty THEN <<"NaN", "NaN">> ELSE <<"index[0]", "index[-1]">>
    /\ pm_test_results' = arange(sort_values(pm_test_results))
    /\ wpc' = "template"
    /\ UNCHANGED <<encode, interpreter, readable, custom_graphics,
                   test_results_graphics, dfEmpty, img_dic, todo, reportFile,
                   reportBefore>>
    /\ UNCHANGED notReport

\* lines 363-364
EnterTemplate ==
    /\ wpc = "template"
    /\ IF encode THEN wpc' = "custom" /\ todo' = custom_graphics
       ELSE wpc' = "render" /\ UNCHANGED todo
    /\ UNCHANGED <<encode, interpreter, readable, custom_graphics,
                   test_results_graphics, dfEmpty, pm_test_results, img_dic,
                   times, reportFile, reportBefore>>
    /\ UNCHANGED notReport

\* lines 365-369: one pass of the loop over custom_graphics
EncodeCustom ==
    /\ wpc = "custom"
    /\ IF todo = <<>>
       THEN wpc' = "test" /\ todo' = test_results_graphics /\ UNCHANGED img_dic
       ELSE IF CannotOpen(Head(todo)) \/ CannotEncode(Head(todo))
            THEN wpc' = "raised" /\ UNCHANGED <<todo, img_dic>>
            ELSE /\ img_dic' = img_dic \cup {Head(todo)}
                 /\ todo' = Tail(todo)
                 /\ UNCHANGED wpc
    /\ UNCHANGED <<encode, interpreter, readable, custom_graphics,
                   test_results_graphics, dfEmpty, pm_test_results, times,
                   reportFile, reportBefore>>
    /\ UNCHANGED notReport

\* lines 370-374: one pass of the loop over test_results_graphics
EncodeTestResults ==
    /\ wpc = "test"
    /\ IF todo = <<>>
       THEN wpc' = "render" /\ UNCHANGED <<todo, img_dic>>
       ELSE IF CannotOpen(Head(todo)) \/ CannotEncode(Head(todo))
            THEN wpc' = "raised" /\ UNCHANGED <<todo, img_dic>>
            ELSE /\ img_dic' = img_dic \cup {Head(todo)}
                 /\ todo' = Tail(todo)
                 /\ UNCHANGED wpc
    /\ UNCHANGED <<encode, interpreter, readable, custom_graphics,
                   test_results_graphics, dfEmpty, pm_test_results, times,
                   reportFile, reportBefore>>
    /\ UNCHANGED notReport

\* lines 376-383 and 279-281
RenderAndWrite ==
    /\ wpc = "render"
    /\ reportFile' = [exists |-> TRUE, start |-> times[1], images |-> img_dic,
                      inline |-> encode, results |-> pm_test_results]
    /\ wpc' = "returned"
    /\ UNCHANGED <<encode, interpreter, readable, custom_graphics,
                   test_results_graphics, dfEmpty, pm_test_results, img_dic,
                   todo, times, reportBefore>>
    /\ UNCHANGED notReport

ReportNext ==
    \/ Prepare
    \/ EnterTemplate
    \/ EncodeCustom
    \/ EncodeTestResults
    \/ RenderAndWrite

(***************************************************************************)
(* Properties of write_monitoring_report                                   *)
(***************************************************************************)
Referenced == {custom_graphics[i] : i \in 1..Len(custom_graphics)}
                \cup {test_results_graphics[i] : i \in 1..Len(test_results_graphics)}

\* C8: with inline encoding requested and some referenced image unreadable
\* the call never returns normally and the report file stays as it was.
C8_UnreadableImageAborts ==
    (encode /\ \E im \in Referenced : ~readable[im])
        => /\ wpc # "returned"
           /\ reportFile = reportBefore

C8_Witness ==
    /\ wpc = "raised" /\ encode /\ interpreter = "py2"
    /\ img_dic # {} /\ reportFile = OldReport
    /\ \E i \in 1..Len(test_results_graphics) : ~readable[test_results_graphics[i]]
    /\ \A i \in 1..Len(custom_graphics) : readable[custom_graphics[i]]

(***************************************************************************)
(* Specifications: one function runs, the others stay idle.                *)
(***************************************************************************)
InitRead == ReadInit /\ EmailIdle /\ MetricsIdle /\ ResultsIdle /\ ReportIdle
SpecRead == InitRead /\ [][ReadNext]_vars

InitEmail == EmailInit /\ ReadIdle /\ MetricsIdle /\ ResultsIdle /\ ReportIdle
SpecEmail == InitEmail /\ [][EmailNext]_vars

InitMetrics == MetricsInit /\ ReadIdle /\ EmailIdle /\ ResultsIdle /\ ReportIdle
SpecMetrics == InitMetrics /\ [][MetricsNext]_vars

InitResults == ResultsInit /\ ReadIdle /\ EmailIdle /\ MetricsIdle /\ ReportIdle
SpecResults == InitResults /\ [][ResultsNext]_vars

InitReport == ReportInit /\ ReadIdle /\ EmailIdle /\ MetricsIdle /\ ResultsIdle
SpecReport == InitReport /\ [][ReportNext]_vars
=============================================================================
